---- MODULE Spec2Model ----
(***************************************************************************)
(* State-machine model of the OCR / text-to-speech HTTP service:          *)
(*   app/config.py  Settings, validate, is_file_type_allowed              *)
(*   app/utils.py   _validate_upload, _extract_text, _text_response,      *)
(*                  _text_to_audio_response                               *)
(*   app/routes.py  the six route handlers                                *)
(*   main.py        lifespan (startup)                                    *)
(*                                                                         *)
(* Byte sizes are in scaled units: only the comparison                     *)
(* len(contents) > settings.max_file_size is modelled.  Strings that the   *)
(* code inspects character by character (text.strip()) are sequences of    *)
(* one-character strings.  The two upstream services are external: each    *)
(* call either raises or returns, chosen nondeterministically.            *)
(***************************************************************************)
EXTENDS Integers, Sequences, FiniteSets, TLC

\* ---------------------------------------------------------------- bounds
NumRequests == 2      \* request slots that may be in flight at once
MaxBytes == 2         \* largest configured max_file_size (scaled units)
MaxTextLen == 2       \* longest text submitted by a caller / returned upstream

Requests == 1..NumRequests

\* ------------------------------------------------------------ config.py
DefaultAllowedFileTypes == <<"image/jpeg", "image/png", "image/gif", "image/webp">>

DefaultPort == 8000
MaxPort == 65535

\* Settings() reads every field from the environment, falling back to the
\* defaults.  The environments explored: key present or absent, a positive or
\* a non-positive size limit, a valid or an invalid port, the default or a
\* narrowed allow-list.
SettingsEnv ==
  [ gemini_api_key     : {"", "key"},
    max_file_size      : {0, MaxBytes},
    port               : {0, DefaultPort},
    allowed_file_types : {DefaultAllowedFileTypes, <<"image/png">>} ]

\* Settings.validate: the list of errors is empty
validate(s) ==
  LET e1 == IF s.gemini_api_key = "" THEN 1 ELSE 0
      e2 == IF s.max_file_size <= 0 THEN 1 ELSE 0
      e3 == IF ~(1 <= s.port /\ s.port <= MaxPort) THEN 1 ELSE 0
  IN  e1 + e2 + e3 = 0

SeqElems(q) == { q[i] : i \in 1..Len(q) }

\* Settings.is_file_type_allowed: content_type in self.allowed_file_types
is_file_type_allowed(s, content_type) ==
  content_type \in SeqElems(s.allowed_file_types)

\* ", ".join(list)
RECURSIVE Join(_)
Join(q) ==
  IF Len(q) = 0 THEN <<>>
  ELSE IF Len(q) = 1 THEN <<q[1]>>
  ELSE <<q[1], ", ">> \o Join(Tail(q))

\* ------------------------------------------------------------- utils.py
NoException == [raised |-> FALSE, http |-> FALSE, status |-> 0, detail |-> <<>>]
HTTPException(code, det) ==
  [raised |-> TRUE, http |-> TRUE, status |-> code, detail |-> det]
Exception(det) ==
  [raised |-> TRUE, http |-> FALSE, status |-> 0, detail |-> det]

\* mutant: the size check placed before the type check
_validate_upload_size_first(s, content_type, size) ==
  IF size > s.max_file_size
    THEN HTTPException(413, <<"File too large. Maximum size is ", "MB">>)
  ELSE IF ~is_file_type_allowed(s, content_type)
    THEN HTTPException(400, <<"Invalid file type. Allowed: ">> \o Join(s.allowed_file_types))
  ELSE NoException

\* mutant: >= in place of >
_validate_upload_ge(s, content_type, size) ==
  IF ~is_file_type_allowed(s, content_type)
    THEN HTTPException(400, <<"Invalid file type. Allowed: ">> \o Join(s.allowed_file_types))
  ELSE IF size >= s.max_file_size
    THEN HTTPException(413, <<"File too large. Maximum size is ", "MB">>)
  ELSE NoException

\* _validate_upload: the exception it raises, or NoException
_validate_upload(s, content_type, size) ==
  IF ~is_file_type_allowed(s, content_type)
    THEN HTTPException(400, <<"Invalid file type. Allowed: ">> \o Join(s.allowed_file_types))
  ELSE IF size > s.max_file_size
    THEN HTTPException(413, <<"File too large. Maximum size is ", "MB">>)
  ELSE NoException

\* ------------------------------------------------------------ str.strip
Whitespace == {" ", "\t", "\n"}

RECURSIVE lstrip(_)
lstrip(t) ==
  IF Len(t) = 0 THEN t
  ELSE IF t[1] \in Whitespace THEN lstrip(Tail(t)) ELSE t

RECURSIVE rstrip(_)
rstrip(t) ==
  IF Len(t) = 0 THEN t
  ELSE IF t[Len(t)] \in Whitespace THEN rstrip(SubSeq(t, 1, Len(t) - 1)) ELSE t

strip(t) == rstrip(lstrip(t))

\* mutant: `if not text` without the strip
not_text_strip_nostrip(t) == Len(t) = 0

\* `not text.strip()`
not_text_strip(t) == Len(strip(t)) = 0


\* ---------------------------------------------------------------- state
VARIABLES
  phase,             \* "starting" until lifespan has run, then "serving"
  startup_mode,      \* the startup policy the deployment asks for
  settings,          \* app.config.settings, the process-wide singleton
  genai_configured,  \* whether genai.configure(api_key=...) has been called
  req                \* per request slot: the handler's locals and its response

vars == <<phase, startup_mode, settings, genai_configured, req>>

ImageEndpoints == {"/ocr", "/ocr-with-prompt", "/ocr-audio"}
Endpoints == {"/", "/health", "/text-to-audio"} \cup ImageEndpoints

\* inputs a caller can send
ContentTypes == {"image/png", "image/webp", "text/plain"}
Sizes == 0..(MaxBytes + 1)
Filenames == {"scan.png", "non_latin1.png"}
TextAlphabet == {" ", "a"}
Texts == UNION { [1..n -> TextAlphabet] : n \in 0..MaxTextLen }

\* a slot with no request in it
IdleReq ==
  [ pc |-> "idle", endpoint |-> "", content_type |-> "", size |-> 0,
    decodable |-> FALSE, filename |-> "", text |-> <<>>,
    status |-> 0, detail |-> <<>>, media_type |-> "", content |-> <<>>,
    responses |-> 0, trace |-> <<>> ]

\* the response leaves the handler: the request is over
Respond(rec, code, det, mtype, cont) ==
  [rec EXCEPT !.pc = "done", !.status = code, !.detail = det,
              !.media_type = mtype, !.content = cont,
              !.responses = @ + 1]

ErrorPrefix(ep) ==
  IF ep = "/text-to-audio" THEN "Error converting text to audio: "
  ELSE "Error processing image: "

\* mutant: a single `except Exception` clause, which also catches HTTPException
except_clauses_catch_all(rec, exc) ==
  Respond(rec, 500, <<ErrorPrefix(rec.endpoint)>> \o exc.detail, "application/json", <<>>)

\* the handlers' except clauses:
\*   except HTTPException: raise
\*   except Exception as e: raise HTTPException(status_code=500, ...)
except_clauses(rec, exc) ==
  IF exc.http
    THEN Respond(rec, exc.status, exc.detail, "application/json", <<>>)
    ELSE Respond(rec, 500, <<ErrorPrefix(rec.endpoint)>> \o exc.detail,
                 "application/json", <<>>)

\* Response(headers=...) encodes the header values as latin-1
Latin1Encodable(filename) == filename # "non_latin1.png"

\* _text_response: the Response, or the exception raised while building it
_text_response(rec, text, filename) ==
  IF Latin1Encodable(filename)
    THEN Respond([rec EXCEPT !.filename = filename], 200, <<>>,
                 "text/plain; charset=utf-8", text)
    ELSE except_clauses([rec EXCEPT !.filename = filename],
                        Exception(<<"UnicodeEncodeError">>))

Log(rec, events) == [rec EXCEPT !.trace = @ \o events]

\* -------------------------------------------------------------- main.py
Init ==
  /\ phase = "starting"
  /\ startup_mode \in {"non_fatal", "fatal"}
  /\ settings \in SettingsEnv
  /\ genai_configured = FALSE
  /\ req = [r \in Requests |-> IdleReq]

\* mutant: a failed validation stops the process
lifespan_exit_on_failure ==
  /\ phase = "starting"
  /\ IF ~validate(settings)
       THEN phase' = "refused" /\ genai_configured' = FALSE
       ELSE phase' = "serving" /\ genai_configured' = TRUE
  /\ UNCHANGED <<startup_mode, settings, req>>

\* lifespan: validate, configure the upstream client if valid, log, yield
lifespan ==
  /\ phase = "starting"
  /\ genai_configured' = validate(settings)
  /\ phase' = "serving"
  /\ UNCHANGED <<startup_mode, settings, req>>

\* ------------------------------------------------------------ routes.py
\* the server routes a request to its handler
Arrive(r) ==
  /\ phase = "serving"
  /\ req[r].pc = "idle"
  /\ \E ep \in Endpoints :
       req' = [req EXCEPT ![r] = [IdleReq EXCEPT !.pc = "handler", !.endpoint = ep]]
  /\ UNCHANGED <<phase, startup_mode, settings, genai_configured>>

root(r) ==
  /\ req[r].pc = "handler"
  /\ req[r].endpoint = "/"
  /\ req' = [req EXCEPT ![r] =
       Respond(@, 200, <<>>, "application/json", <<"message", "OCR API is running">>)]
  /\ UNCHANGED <<phase, startup_mode, settings, genai_configured>>

\* mutant: the probe reports the outcome of the startup validation
health_check_reports_config(r) ==
  /\ req[r].pc = "handler"
  /\ req[r].endpoint = "/health"
  /\ req' = [req EXCEPT ![r] =
       Respond(@, 200, <<>>, "application/json",
               <<"status", IF genai_configured THEN "healthy" ELSE "unhealthy">>)]
  /\ UNCHANGED <<phase, startup_mode, settings, genai_configured>>

health_check(r) ==
  /\ req[r].pc = "handler"
  /\ req[r].endpoint = "/health"
  /\ req' = [req EXCEPT ![r] =
       Respond(@, 200, <<>>, "application/json", <<"status", "healthy">>)]
  /\ UNCHANGED <<phase, startup_mode, settings, genai_configured>>

\* Image.open identifies the format from the first bytes: empty contents
\* never decode, anything else may or may not
Decodable(size, dec) == dec => size > 0

\* mutant: the validator's exception is swallowed and the handler goes on
ValidateAndDecode_ignore_rejection(r) ==
  /\ req[r].pc = "handler"
  /\ req[r].endpoint \in ImageEndpoints
  /\ \E ct \in ContentTypes, sz \in Sizes, dec \in BOOLEAN :
       /\ Decodable(sz, dec)
       /\ LET rec == [req[r] EXCEPT !.content_type = ct, !.size = sz]
              v   == _validate_upload(settings, ct, sz)
          IN  IF v.raised
                THEN req' = [req EXCEPT ![r] =
                       [Log(rec, <<"validate_rejected">>) EXCEPT !.pc = "extract"]]
              ELSE IF ~dec
                THEN req' = [req EXCEPT ![r] =
                       except_clauses(Log(rec, <<"validate_ok", "decode_failed">>),
                                      Exception(<<"cannot identify image file">>))]
              ELSE req' = [req EXCEPT ![r] =
                       [Log(rec, <<"validate_ok", "decode_ok">>)
                          EXCEPT !.pc = "extract", !.decodable = TRUE]]
  /\ UNCHANGED <<phase, startup_mode, settings, genai_configured>>

\* mutant: Image.open's failure is swallowed and the handler goes on
ValidateAndDecode_ignore_decode(r) ==
  /\ req[r].pc = "handler"
  /\ req[r].endpoint \in ImageEndpoints
  /\ \E ct \in ContentTypes, sz \in Sizes, dec \in BOOLEAN :
       /\ Decodable(sz, dec)
       /\ LET rec == [req[r] EXCEPT !.content_type = ct, !.size = sz]
              v   == _validate_upload(settings, ct, sz)
          IN  IF v.raised
                THEN req' = [req EXCEPT ![r] =
                       except_clauses(Log(rec, <<"validate_rejected">>), v)]
              ELSE IF ~dec
                THEN req' = [req EXCEPT ![r] =
                       [Log(rec, <<"validate_ok", "decode_failed">>) EXCEPT !.pc = "extract"]]
              ELSE req' = [req EXCEPT ![r] =
                       [Log(rec, <<"validate_ok", "decode_ok">>)
                          EXCEPT !.pc = "extract", !.decodable = TRUE]]
  /\ UNCHANGED <<phase, startup_mode, settings, genai_configured>>

\* mutant: the handler records the upload's size in the shared settings
ValidateAndDecode_writes_settings(r) ==
  /\ req[r].pc = "handler"
  /\ req[r].endpoint \in ImageEndpoints
  /\ \E ct \in ContentTypes, sz \in Sizes, dec \in BOOLEAN :
       /\ Decodable(sz, dec)
       /\ LET rec == [req[r] EXCEPT !.content_type = ct, !.size = sz]
              v   == _validate_upload(settings, ct, sz)
          IN  /\ settings' = [settings EXCEPT !.max_file_size = sz]
              /\ IF v.raised
                   THEN req' = [req EXCEPT ![r] =
                          except_clauses(Log(rec, <<"validate_rejected">>), v)]
                 ELSE IF ~dec
                   THEN req' = [req EXCEPT ![r] =
                          except_clauses(Log(rec, <<"validate_ok", "decode_failed">>),
                                         Exception(<<"cannot identify image file">>))]
                 ELSE req' = [req EXCEPT ![r] =
                          [Log(rec, <<"validate_ok", "decode_ok">>)
                             EXCEPT !.pc = "extract", !.decodable = TRUE]]
  /\ UNCHANGED <<phase, startup_mode, genai_configured>>

\* the image handlers up to the first upstream call:
\*   contents = await file.read(); _validate_upload(file, contents);
\*   Image.open(io.BytesIO(contents))
ValidateAndDecode(r) ==
  /\ req[r].pc = "handler"
  /\ req[r].endpoint \in ImageEndpoints
  /\ \E ct \in ContentTypes, sz \in Sizes, dec \in BOOLEAN :
       /\ Decodable(sz, dec)
       /\ LET rec == [req[r] EXCEPT !.content_type = ct, !.size = sz]
              v   == _validate_upload(settings, ct, sz)
          IN  IF v.raised
                THEN req' = [req EXCEPT ![r] =
                       except_clauses(Log(rec, <<"validate_rejected">>), v)]
              ELSE IF ~dec
                THEN req' = [req EXCEPT ![r] =
                       except_clauses(Log(rec, <<"validate_ok", "decode_failed">>),
                                      Exception(<<"cannot identify image file">>))]
              ELSE req' = [req EXCEPT ![r] =
                       [Log(rec, <<"validate_ok", "decode_ok">>)
                          EXCEPT !.pc = "extract", !.decodable = TRUE]]
  /\ UNCHANGED <<phase, startup_mode, settings, genai_configured>>

\* _extract_text: one generate_content call; it raises or returns response.text
ExtractionOutcomes ==
  {[raised |-> TRUE, text |-> <<>>]} \cup {[raised |-> FALSE, text |-> t] : t \in Texts}

\* mutant: a failed upstream call is tried once more
_extract_text_retry(rec, outcome) ==
  IF outcome.raised
    THEN Log(rec, <<"extract_call", "extract_failed", "extract_call", "extract_failed">>)
    ELSE [Log(rec, <<"extract_call", "extract_ok">>) EXCEPT !.text = outcome.text]

\* the handler's locals after text = _extract_text(...) returned or raised
_extract_text(rec, outcome) ==
  IF outcome.raised
    THEN Log(rec, <<"extract_call", "extract_failed">>)
    ELSE [Log(rec, <<"extract_call", "extract_ok">>) EXCEPT !.text = outcome.text]

Last(q) == q[Len(q)]

\* the image handlers from the extraction call to the response or, on
\* /ocr-audio, to the synthesis call
ExtractText(r) ==
  /\ req[r].pc = "extract"
  /\ \E outcome \in ExtractionOutcomes, fn \in Filenames :
       LET rec == _extract_text(req[r], outcome)
       IN  IF Last(rec.trace) = "extract_failed"
             THEN req' = [req EXCEPT ![r] =
                    except_clauses(rec, Exception(<<"upstream error">>))]
           ELSE IF rec.endpoint # "/ocr-audio"
             THEN req' = [req EXCEPT ![r] = _text_response(rec, rec.text, fn)]
           ELSE IF not_text_strip(rec.text)
             THEN req' = [req EXCEPT ![r] =
                    except_clauses(rec, HTTPException(422, <<"No text found in the image.">>))]
           ELSE req' = [req EXCEPT ![r] = [rec EXCEPT !.pc = "synthesize"]]
  /\ UNCHANGED <<phase, startup_mode, settings, genai_configured>>

\* gTTS(text, lang) and tts.write_to_fp(buf): the call raises or returns MP3 bytes
gTTS(rec, ok) ==
  IF ok THEN Log(rec, <<"synth_call", "synth_ok">>)
        ELSE Log(rec, <<"synth_call", "synth_failed">>)

\* /ocr-audio: return _text_to_audio_response(text, file.filename, lang)
_text_to_audio_response(r) ==
  /\ req[r].pc = "synthesize"
  /\ req[r].endpoint = "/ocr-audio"
  /\ \E ok \in BOOLEAN, fn \in Filenames :
       LET rec == gTTS(req[r], ok)
       IN  IF ~ok
             THEN req' = [req EXCEPT ![r] =
                    except_clauses(rec, Exception(<<"gTTS error">>))]
           ELSE IF ~Latin1Encodable(fn)
             THEN req' = [req EXCEPT ![r] =
                    except_clauses([rec EXCEPT !.filename = fn],
                                   Exception(<<"UnicodeEncodeError">>))]
           ELSE req' = [req EXCEPT ![r] =
                    Respond([rec EXCEPT !.filename = fn], 200, <<>>, "audio/mpeg", <<"mp3">>)]
  /\ UNCHANGED <<phase, startup_mode, settings, genai_configured>>

\* /text-to-audio up to the synthesis call: the emptiness check on the form text
text_to_audio(r) ==
  /\ req[r].pc = "handler"
  /\ req[r].endpoint = "/text-to-audio"
  /\ \E t \in Texts :
       LET rec == [req[r] EXCEPT !.text = t]
       IN  IF not_text_strip(t)
             THEN req' = [req EXCEPT ![r] =
                    except_clauses(rec, HTTPException(400, <<"Text cannot be empty.">>))]
             ELSE req' = [req EXCEPT ![r] = [rec EXCEPT !.pc = "synthesize"]]
  /\ UNCHANGED <<phase, startup_mode, settings, genai_configured>>

\* /text-to-audio from the synthesis call to the response
text_to_audio_synthesize(r) ==
  /\ req[r].pc = "synthesize"
  /\ req[r].endpoint = "/text-to-audio"
  /\ \E ok \in BOOLEAN :
       LET rec == gTTS(req[r], ok)
       IN  IF ~ok
             THEN req' = [req EXCEPT ![r] =
                    except_clauses(rec, Exception(<<"gTTS error">>))]
             ELSE req' = [req EXCEPT ![r] =
                    Respond(rec, 200, <<>>, "audio/mpeg", <<"mp3">>)]
  /\ UNCHANGED <<phase, startup_mode, settings, genai_configured>>

\* the response has been sent; the request's data is discarded
Close(r) ==
  /\ req[r].pc = "done"
  /\ req' = [req EXCEPT ![r] = IdleReq]
  /\ UNCHANGED <<phase, startup_mode, settings, genai_configured>>

Next ==
  \/ lifespan
  \/ \E r \in Requests : Arrive(r)
  \/ \E r \in Requests : root(r)
  \/ \E r \in Requests : health_check(r)
  \/ \E r \in Requests : ValidateAndDecode(r)
  \/ \E r \in Requests : ExtractText(r)
  \/ \E r \in Requests : _text_to_audio_response(r)
  \/ \E r \in Requests : text_to_audio(r)
  \/ \E r \in Requests : text_to_audio_synthesize(r)
  \/ \E r \in Requests : Close(r)

Spec == Init /\ [][Next]_vars

\* ===================================================================
\* Properties
\* ===================================================================
Has(q, tok) == \E i \in 1..Len(q) : q[i] = tok
Count(q, tok) == Cardinality({ i \in 1..Len(q) : q[i] = tok })
IsBlank(t) == \A i \in 1..Len(t) : t[i] \in {" ", "\t", "\n"}
InAllowList(ct) == \E i \in 1..Len(settings.allowed_file_types) : settings.allowed_file_types[i] = ct
ConfigValid ==
  /\ settings.gemini_api_key # ""
  /\ settings.max_file_size > 0
  /\ settings.port >= 1
  /\ settings.port <= 65535
\* the validator has run on this request's upload
Validated(rec) == rec.endpoint \in ImageEndpoints /\ Len(rec.trace) > 0
NoGatewayCall(rec) == ~Has(rec.trace, "extract_call") /\ ~Has(rec.trace, "synth_call")

\* C1: on every image endpoint, when the upload validator rejects the upload
\* the request is over at once, its response is the validator's own error
\* (400 or 413, with the validator's message), and neither the extraction
\* gateway nor the synthesis gateway has been called for that request.
C1_RejectionIsTerminal ==
  \A r \in Requests :
    Has(req[r].trace, "validate_rejected") =>
      /\ req[r].endpoint \in ImageEndpoints
      /\ req[r].pc = "done"
      /\ req[r].trace = <<"validate_rejected">>
      /\ req[r].status \in {400, 413}
      /\ req[r].status = (IF InAllowList(req[r].content_type) THEN 413 ELSE 400)
      /\ req[r].detail[1] \in {"Invalid file type. Allowed: ", "File too large. Maximum size is "}
      /\ NoGatewayCall(req[r])

C1_Witness ==
  \E r \in Requests :
    /\ req[r].endpoint = "/ocr-audio"
    /\ Has(req[r].trace, "validate_rejected")
    /\ req[r].status = 413

\* C2: for every declared content type that is not in the configured
\* allow-list, whatever the byte length, the validator rejects with 400 and
\* the message names every entry of the configured allow-list.
C2_UnsupportedType ==
  \A r \in Requests :
    (Validated(req[r]) /\ ~InAllowList(req[r].content_type)) =>
      /\ req[r].trace = <<"validate_rejected">>
      /\ req[r].status = 400
      /\ req[r].detail[1] = "Invalid file type. Allowed: "
      /\ \A i \in 1..Len(settings.allowed_file_types) :
           Has(req[r].detail, settings.allowed_file_types[i])

C2_Witness ==
  \E r \in Requests :
    /\ Validated(req[r])
    /\ ~InAllowList(req[r].content_type)
    /\ req[r].content_type = "image/webp"
    /\ req[r].size > settings.max_file_size
    /\ req[r].status = 400

\* C3 as stated: every byte length above max_file_size is rejected with 413,
\* and every byte length up to max_file_size with an allowed type is accepted.
C3_AsStated ==
  \A r \in Requests :
    Validated(req[r]) =>
      /\ (req[r].size > settings.max_file_size) => req[r].status = 413
      /\ (req[r].size <= settings.max_file_size /\ InAllowList(req[r].content_type))
           => Has(req[r].trace, "validate_ok")

\* C3 (amended): for an allowed content type, every byte length above
\* max_file_size is rejected with 413 and every byte length up to
\* max_file_size (max_file_size itself and 0 included) is accepted; with a
\* content type outside the allow-list the rejection is 400 whatever the length.
C3_SizeLimit ==
  \A r \in Requests :
    Validated(req[r]) =>
      /\ (InAllowList(req[r].content_type) /\ req[r].size > settings.max_file_size)
           => (req[r].status = 413 /\ req[r].trace = <<"validate_rejected">>)
      /\ (InAllowList(req[r].content_type) /\ req[r].size <= settings.max_file_size)
           => (Has(req[r].trace, "validate_ok") /\ ~Has(req[r].trace, "validate_rejected"))
      /\ (~InAllowList(req[r].content_type)) => req[r].status = 400

C3_Witness ==
  \E r1, r2 \in Requests :
    /\ Has(req[r1].trace, "validate_ok")
    /\ req[r1].size = settings.max_file_size
    /\ settings.max_file_size > 0
    /\ req[r2].size = settings.max_file_size + 1
    /\ InAllowList(req[r2].content_type)
    /\ req[r2].status = 413

\* C4: blank text (empty or only whitespace) never reaches the synthesis
\* gateway: on /ocr-audio a blank extraction result ends the request with 422,
\* on /text-to-audio a blank form text ends it with 400, and in both cases
\* no synthesis call has been made.
C4_BlankTextNeverSynthesized ==
  \A r \in Requests :
    /\ Has(req[r].trace, "synth_call") => ~IsBlank(req[r].text)
    /\ (req[r].endpoint = "/ocr-audio" /\ Has(req[r].trace, "extract_ok") /\ IsBlank(req[r].text))
         => (req[r].pc = "done" /\ req[r].status = 422 /\ ~Has(req[r].trace, "synth_call"))
    /\ (req[r].endpoint = "/text-to-audio" /\ req[r].pc # "handler" /\ IsBlank(req[r].text))
         => (req[r].pc = "done" /\ req[r].status = 400 /\ ~Has(req[r].trace, "synth_call"))

C4_Witness ==
  \E r1, r2 \in Requests :
    /\ req[r1].endpoint = "/ocr-audio"
    /\ req[r1].text = <<" ">>
    /\ req[r1].status = 422
    /\ req[r2].endpoint = "/text-to-audio"
    /\ req[r2].text = <<" ">>
    /\ req[r2].status = 400

\* C5: nothing is retried: a request makes at most one extraction call and at
\* most one synthesis call, and a failed upstream call is the last thing the
\* request does before its 500 response.
C5_NoRetry ==
  \A r \in Requests :
    /\ Count(req[r].trace, "extract_call") <= 1
    /\ Count(req[r].trace, "synth_call") <= 1
    /\ (Has(req[r].trace, "extract_failed") \/ Has(req[r].trace, "synth_failed")) =>
         /\ req[r].trace[Len(req[r].trace)] \in {"extract_failed", "synth_failed"}
         /\ Count(req[r].trace, "extract_failed") + Count(req[r].trace, "synth_failed") = 1
         /\ req[r].pc = "done"
         /\ req[r].status = 500

C5_Witness ==
  \E r1, r2 \in Requests :
    /\ Has(req[r1].trace, "extract_failed")
    /\ req[r1].status = 500
    /\ Has(req[r2].trace, "synth_failed")
    /\ Has(req[r2].trace, "extract_ok")
    /\ req[r2].status = 500

\* a failure of image decode, of a gateway or of response building
ProcessingFailure(rec) ==
  \/ Has(rec.trace, "decode_failed")
  \/ Has(rec.trace, "extract_failed")
  \/ Has(rec.trace, "synth_failed")
  \/ rec.filename = "non_latin1.png"

\* C6: a failure of image decode, of either gateway or of response building
\* ends the request with a 500 whose message is the handler's processing-error
\* prefix; the validator's 400/413, the 422 and the empty-text 400 are never
\* turned into 500; a finished request has exactly one response and an
\* unfinished one has none.
C6_ErrorMapping ==
  \A r \in Requests :
    /\ req[r].responses = (IF req[r].pc = "done" THEN 1 ELSE 0)
    /\ (req[r].pc = "done") = (req[r].status # 0)
    /\ ProcessingFailure(req[r]) =>
         /\ req[r].status = 500
         /\ req[r].detail[1] =
              (IF req[r].endpoint = "/text-to-audio"
                 THEN "Error converting text to audio: " ELSE "Error processing image: ")
    /\ Has(req[r].trace, "validate_rejected") => req[r].status \in {400, 413}
    /\ (req[r].endpoint = "/ocr-audio" /\ Has(req[r].trace, "extract_ok") /\ IsBlank(req[r].text))
         => req[r].status = 422
    /\ (req[r].endpoint = "/text-to-audio" /\ req[r].pc = "done" /\ IsBlank(req[r].text))
         => req[r].status = 400
    /\ req[r].status = 500 => ProcessingFailure(req[r])

C6_Witness ==
  \E r1, r2 \in Requests :
    /\ req[r1].endpoint = "/ocr"
    /\ req[r1].filename = "non_latin1.png"
    /\ req[r1].status = 500
    /\ req[r2].endpoint = "/ocr-audio"
    /\ req[r2].status = 422

\* C7 as stated: when the deployment asks for the fatal mode, a failed startup
\* validation makes the process refuse to start.
C7_AsStated ==
  (startup_mode = "fatal" /\ ~ConfigValid /\ phase # "starting") => phase = "refused"

\* C7 (amended): a failed startup validation is always non-fatal: whatever
\* the deployment asks for, startup ends with the service serving, the
\* upstream client is configured exactly when the validation succeeded, and
\* requests are accepted either way; the process never refuses to start.
C7_StartupNonFatal ==
  /\ phase \in {"starting", "serving"}
  /\ (phase = "starting") => (~genai_configured /\ \A r \in Requests : req[r].pc = "idle")
  /\ (phase = "serving") => (genai_configured = ConfigValid)

C7_Witness ==
  /\ startup_mode = "fatal"
  /\ ~ConfigValid
  /\ phase = "serving"
  /\ ~genai_configured
  /\ \E r \in Requests : req[r].endpoint = "/ocr" /\ Has(req[r].trace, "extract_failed")

\* C8: a /health request is answered in one step with 200 {status: healthy},
\* whatever the startup validation found, and that step calls no gateway and
\* changes neither the settings, the upstream configuration nor any other
\* request.
C8_HealthAlwaysHealthy ==
  [][ \A r \in Requests :
        (req[r].pc = "handler" /\ req[r].endpoint = "/health" /\ req'[r] # req[r]) =>
          /\ req'[r].pc = "done"
          /\ req'[r].status = 200
          /\ req'[r].content = <<"status", "healthy">>
          /\ req'[r].trace = <<>>
          /\ settings' = settings
          /\ genai_configured' = genai_configured
          /\ phase' = phase
          /\ \A q \in Requests \ {r} : req'[q] = req[q] ]_vars

C8_Witness ==
  \E r \in Requests :
    /\ req[r].endpoint = "/health"
    /\ req[r].status = 200
    /\ req[r].content = <<"status", "healthy">>
    /\ ~ConfigValid

\* the status a finished request must carry, from its own inputs, the
\* settings and the gateway results it received
ExpectedStatus(rec) ==
  IF rec.endpoint \in {"/", "/health"} THEN 200
  ELSE IF rec.endpoint = "/text-to-audio"
    THEN (IF IsBlank(rec.text) THEN 400
          ELSE IF Has(rec.trace, "synth_failed") THEN 500 ELSE 200)
  ELSE IF ~InAllowList(rec.content_type) THEN 400
  ELSE IF rec.size > settings.max_file_size THEN 413
  ELSE IF ~rec.decodable THEN 500
  ELSE IF Has(rec.trace, "extract_failed") THEN 500
  ELSE IF rec.endpoint = "/ocr-audio" /\ IsBlank(rec.text) THEN 422
  ELSE IF Has(rec.trace, "synth_failed") THEN 500
  ELSE IF rec.filename = "non_latin1.png" THEN 500
  ELSE 200

\* C9: no step ever changes the settings, every step of a handler changes
\* the data of one request only, and the response of a finished request is
\* determined by its own inputs, the settings and the gateway results it
\* received (a 200 from /ocr carries the request's own extracted text).
C9_RequestIsolation ==
  /\ [][ /\ settings' = settings
         /\ \A r1, r2 \in Requests :
              (req'[r1] # req[r1] /\ req'[r2] # req[r2]) => r1 = r2 ]_vars
  /\ [](\A r \in Requests :
          req[r].pc = "done" =>
            /\ req[r].status = ExpectedStatus(req[r])
            /\ (req[r].status = 200 /\ req[r].endpoint \in {"/ocr", "/ocr-with-prompt"})
                 => req[r].content = req[r].text)

C9_Witness ==
  \E r1, r2 \in Requests :
    /\ req[r1].endpoint = "/ocr"
    /\ req[r1].pc = "extract"
    /\ req[r1].size = 1
    /\ req[r2].endpoint = "/ocr"
    /\ req[r2].pc = "done"
    /\ req[r2].size = settings.max_file_size + 1
    /\ req[r2].status = 413

ImageTraces ==
  { <<>>,
    <<"validate_rejected">>,
    <<"validate_ok", "decode_failed">>,
    <<"validate_ok", "decode_ok">>,
    <<"validate_ok", "decode_ok", "extract_call", "extract_failed">>,
    <<"validate_ok", "decode_ok", "extract_call", "extract_ok">> }
AudioTraces ==
  { <<"validate_ok", "decode_ok", "extract_call", "extract_ok", "synth_call", "synth_failed">>,
    <<"validate_ok", "decode_ok", "extract_call", "extract_ok", "synth_call", "synth_ok">> }

\* C10: on every image endpoint the steps run in the order validate, decode,
\* extract, (synthesize): extraction is called only after the validator
\* accepted and the decode succeeded, a decode failure ends the request with
\* 500 and no gateway call, and on /ocr-audio synthesis is called only after
\* the request's own extraction returned non-blank text.
C10_StepOrder ==
  \A r \in Requests :
    req[r].endpoint \in ImageEndpoints =>
      /\ req[r].trace \in
           (IF req[r].endpoint = "/ocr-audio" THEN ImageTraces \cup AudioTraces ELSE ImageTraces)
      /\ Has(req[r].trace, "decode_failed") =>
           (req[r].pc = "done" /\ req[r].status = 500 /\ NoGatewayCall(req[r]))
      /\ Has(req[r].trace, "synth_call") =>
           (Has(req[r].trace, "extract_ok") /\ ~IsBlank(req[r].text))

C10_Witness ==
  \E r1, r2 \in Requests :
    /\ req[r1].endpoint = "/ocr-audio"
    /\ Has(req[r1].trace, "synth_ok")
    /\ req[r1].status = 200
    /\ req[r2].endpoint = "/ocr-with-prompt"
    /\ Has(req[r2].trace, "decode_failed")
    /\ req[r2].status = 500

====
